---- MODULE Spec2Model ----
(***************************************************************************)
(* Order / payment / webhook reconciliation core of the e-commerce         *)
(* backend: FreeGiftService, createOrder, PaymentService.createPayment,    *)
(* PaymentService.handleWebhook and SMSService.sendSMS.                    *)
(*                                                                         *)
(* Money is counted in satang (1/100 THB), the resolution of the           *)
(* DECIMAL(10,2) columns, so that sums and comparisons are exact.          *)
(***************************************************************************)
EXTENDS Integers, Sequences, FiniteSets, TLC

(***************************************************************************)
(* Bounds of the model                                                     *)
(***************************************************************************)
\* longest cart handed to the free gift rules
MaxCartLen == 3
\* largest quantity on a cart line
MaxQty == 2

(***************************************************************************)
(* Program constants                                                       *)
(***************************************************************************)
\* FREE_GIFT_PRODUCT_ID default '1'
freeGiftProductIdDefault == 1
\* FREE_GIFT_MIN_SUBTOTAL default '1000' THB, in satang
minSubtotalDefault == 100000

VARIABLES
  \* ---- configuration and catalogue (read only after construction) ----
  freeGiftProductId,   \* FreeGiftService.freeGiftProductId
  minSubtotal,         \* FreeGiftService.minSubtotal
  products,            \* products table: id -> [price, is_active, is_free_gift]
  \* ---- free gift rules applied to a working cart ----
  gInput,              \* the cart handed to the first application
  gCart,               \* the working cartItems array
  gOnce,               \* the list returned by the first application
  gApplied,            \* number of applications so far
  \* ---- ledger store (committed rows, what any other connection reads) ----
  orders,              \* orders table
  order_items,         \* order_items table
  nextOrderId,         \* AUTO_INCREMENT counter of orders
  \* ---- one createOrder request ----
  oReq,                \* the request body
  oPc,                 \* position of the handler
  oValidated,          \* validatedCartItems
  oTotal,              \* totalAmount
  oNumber,             \* orderNumber
  oId,                 \* orderId (0 while undefined)
  oIdx,                \* number of order_items inserted so far
  txOrders,            \* order rows written by the open transaction
  txItems,             \* order_items rows written by the open transaction
  oFailedAt,           \* the step that threw ("none" if none did)
  oStatus,             \* HTTP status of the response (0 before it is sent)
  oFirstId,            \* value of nextOrderId when the request arrived
  \* ---- payment service ----
  moneyspecSecretId,   \* PaymentService.moneyspecSecretId is non-empty
  moneyspecSecretKey,  \* PaymentService.moneyspecSecretKey is non-empty
  tieFirst,            \* which of several rows with equal created_at the
                       \* store returns first under ORDER BY created_at DESC
  nodeEnv,             \* process.env.NODE_ENV ("" when unset)
  payments,            \* payments table
  pay,                 \* POST /payments/create requests in progress
  payCalls,            \* number of payment requests received
  hook,                \* webhook deliveries in progress
  deliveries,          \* number of webhook deliveries received
  \* ---- single calls of further operations ----
  sms,                 \* one call of MailbitSmsService.sendPaymentSuccessSms
  tok,                 \* one call of PaymentService.createPaymentToken
  ins                  \* one INSERT INTO order_items of createOrder

cfgVars   == <<freeGiftProductId, minSubtotal, products>>
giftVars  == <<gInput, gCart, gOnce, gApplied>>
storeVars == <<orders, order_items, nextOrderId>>
orderVars == <<oReq, oPc, oValidated, oTotal, oNumber, oId, oIdx,
               txOrders, txItems, oFailedAt, oStatus, oFirstId>>
payCfgVars == <<moneyspecSecretId, moneyspecSecretKey, tieFirst, nodeEnv>>
payVars   == <<payments, pay, payCalls, hook, deliveries>>
callVars  == <<sms, tok, ins>>

(***************************************************************************)
(* Catalogue                                                               *)
(***************************************************************************)
ProductIds == 1..4

\* Product 1 is the gift product, 2 and 3 are ordinary active products,
\* 4 is inactive; any other id has no row.
ProductTable(giftFlag) ==
  [p \in ProductIds |->
     CASE p = 1 -> [price |-> 0,      is_active |-> TRUE,  is_free_gift |-> giftFlag]
       [] p = 2 -> [price |-> 99999,  is_active |-> TRUE,  is_free_gift |-> FALSE]
       [] p = 3 -> [price |-> 1,      is_active |-> TRUE,  is_free_gift |-> FALSE]
       [] OTHER -> [price |-> 50000,  is_active |-> FALSE, is_free_gift |-> FALSE]]

\* thresholds a deployment may configure
Thresholds == {0, minSubtotalDefault}

CfgInit ==
  /\ freeGiftProductId = freeGiftProductIdDefault
  /\ minSubtotal \in Thresholds
  /\ products \in {ProductTable(TRUE), ProductTable(FALSE)}

(***************************************************************************)
(* FreeGiftService                                                         *)
(***************************************************************************)
CartItem(p, q, u) == [product_id |-> p, quantity |-> q, unit_price |-> u]

\* getFreeGiftProduct: SELECT * FROM products WHERE id = ? AND is_free_gift
getFreeGiftProduct ==
  IF freeGiftProductId \in DOMAIN products /\ products[freeGiftProductId].is_free_gift
  THEN TRUE ELSE FALSE

isFreeGift(productId) == productId = freeGiftProductId

RECURSIVE SumLines(_)
\* reduce((sum, item) => sum + item.unit_price * item.quantity, 0)
SumLines(items) ==
  IF items = <<>> THEN 0
  ELSE items[1].unit_price * items[1].quantity + SumLines(Tail(items))

\* filter(item => item.product_id !== freeGiftProductId)
NonGift(items) == SelectSeq(items, LAMBDA it : ~isFreeGift(it.product_id))

Subtotal(items) == SumLines(NonGift(items))

\* findIndex(item => item.product_id === freeGiftProductId); 0 stands for -1
freeGiftIndexOf(items) ==
  IF \E i \in DOMAIN items : isFreeGift(items[i].product_id)
  THEN CHOOSE i \in DOMAIN items :
         /\ isFreeGift(items[i].product_id)
         /\ \A j \in 1..(i-1) : ~isFreeGift(items[j].product_id)
  ELSE 0

shouldHaveFreeGift_strict(subtotal, threshold) == subtotal > threshold
shouldHaveFreeGift(subtotal, threshold) == subtotal >= threshold

\* cartItems.splice(index, 1)
Splice1(items, index) ==
  [i \in 1..(Len(items) - 1) |-> IF i < index THEN items[i] ELSE items[i + 1]]

applyFreeGiftRules(cartItems) ==
  IF ~getFreeGiftProduct THEN cartItems
  ELSE
    LET subtotal      == Subtotal(cartItems)
        freeGiftIndex == freeGiftIndexOf(cartItems)
        hasFreeGift   == freeGiftIndex # 0
        should        == shouldHaveFreeGift(subtotal, minSubtotal)
    IN  IF should /\ ~hasFreeGift
          THEN Append(cartItems, CartItem(freeGiftProductId, 1, 0))
        ELSE IF ~should /\ hasFreeGift
          THEN Splice1(cartItems, freeGiftIndex)
        ELSE IF hasFreeGift
          THEN [cartItems EXCEPT ![freeGiftIndex].quantity = 1,
                                 ![freeGiftIndex].unit_price = 0]
        ELSE cartItems

(***************************************************************************)
(* Specification SpecGift: the rules applied repeatedly to one cart        *)
(***************************************************************************)
GiftPrices == {0, 1, 99999}
GiftLines ==
  {CartItem(p, q, u) : p \in {1, 2}, q \in 1..MaxQty, u \in GiftPrices}
GiftCarts == UNION {[1..n -> GiftLines] : n \in 0..MaxCartLen}

GiftIdle ==
  /\ gInput = <<>>
  /\ gCart = <<>>
  /\ gOnce = <<>>
  /\ gApplied = 0

StoreEmpty ==
  /\ orders = <<>>
  /\ order_items = <<>>
  /\ nextOrderId = 1

OrderIdle ==
  /\ oReq = [fieldsOk |-> TRUE, cartKind |-> "array", cart_items |-> <<>>]
  /\ oPc = "idle"
  /\ oValidated = <<>>
  /\ oTotal = 0
  /\ oNumber = ""
  /\ oId = 0
  /\ oIdx = 0
  /\ txOrders = <<>>
  /\ txItems = <<>>
  /\ oFailedAt = "none"
  /\ oStatus = 0
  /\ oFirstId = nextOrderId

\* concurrent POST /payments/create requests
MaxPayReqs == 1

PayReqs == 1..MaxPayReqs
\* the webhook route; its deliveries are handled one after the other
Hooks == {1}

NoToken == [mock |-> FALSE, id |-> 0]
NoUrl == [prefix |-> "", token |-> NoToken]
NoResult == [kind |-> "none", status |-> 0, paymentUrl |-> NoUrl, transactionId |-> NoToken]
PayIdleRec ==
  [pc |-> "idle", orderId |-> 0, method |-> "qr", amount |-> 0,
   token |-> NoToken, result |-> NoResult, gwCalls |-> 0, inserted |-> 0,
   gwFailed |-> FALSE, dbFailed |-> FALSE]

NoPayload ==
  [transaction_id |-> "", id |-> "", order_id |-> "", order_number |-> "",
   status |-> "", payment_status |-> ""]
NoSms == [sent |-> FALSE, phone |-> "", order_number |-> "", ok |-> FALSE]
\* req.headers['x-moneyspec-signature'] when the header is absent
NoSignature == [present |-> FALSE, length |-> 0]
\* route is "none" while handleWebhook is called without a controller
HookIdleRec ==
  [pc |-> "idle", payload |-> NoPayload, orderId |-> 0,
   result |-> [success |-> FALSE, orderId |-> 0], sms |-> NoSms,
   dbFailed |-> FALSE, repeat |-> FALSE,
   route |-> "none", signature |-> NoSignature, http |-> 0]

\* sendPaymentSuccessSms before it is called: phone is the string as a
\* sequence of characters, apiKey and clientId say whether the fields are
\* non-empty, requests counts the HTTP requests issued
SmsIdleRec ==
  [pc |-> "idle", phone |-> <<>>, orderId |-> "", apiKey |-> FALSE, clientId |-> FALSE,
   requests |-> 0, error |-> "none"]

\* response.data: an empty array, or an object (alone or first in an
\* array) with its status, message and token
TokenBody(kind, status, msg, token) ==
  [kind |-> kind, status |-> status, message |-> msg, token |-> token]
NoBody == TokenBody("none", "", "", FALSE)

\* createPaymentToken before it is called: amount is order.total_amount in
\* satang, passes counts the invocations, log lists the HTTP requests made
\* with their outcomes, body is the response body last received
TokIdleRec ==
  [pc |-> "idle", amount |-> 0, trySatang |-> FALSE, passes |-> 0, log |-> <<>>,
   body |-> NoBody, result |-> "none"]

\* the INSERT INTO order_items before it runs: quantity4 is the line's
\* quantity in quarters, row the row as stored
NoItemRow == [quantity |-> 0, unit_price |-> 0, total_price |-> 0]
InsIdleRec ==
  [pc |-> "idle", product_id |-> 0, quantity4 |-> 0, unit_price |-> 0, row |-> NoItemRow]

CallsIdle ==
  /\ sms = SmsIdleRec
  /\ tok = TokIdleRec
  /\ ins = InsIdleRec

PayIdle ==
  /\ moneyspecSecretId = FALSE
  /\ moneyspecSecretKey = FALSE
  /\ tieFirst = "low"
  /\ nodeEnv = ""
  /\ payments = <<>>
  /\ pay = [r \in PayReqs |-> PayIdleRec]
  /\ payCalls = 0
  /\ hook = [h \in Hooks |-> HookIdleRec]
  /\ deliveries = 0

GiftInit ==
  /\ CallsIdle
  /\ CfgInit
  /\ gInput \in GiftCarts
  /\ gCart = gInput
  /\ gOnce = <<>>
  /\ gApplied = 0
  /\ StoreEmpty
  /\ OrderIdle
  /\ PayIdle

\* one call of applyFreeGiftRules on the working array
ApplyRules ==
  /\ gApplied < 2
  /\ gCart' = applyFreeGiftRules(gCart)
  /\ gOnce' = IF gApplied = 0 THEN applyFreeGiftRules(gCart) ELSE gOnce
  /\ gApplied' = gApplied + 1
  /\ UNCHANGED <<gInput, callVars, cfgVars, storeVars, orderVars, payCfgVars, payVars>>

GiftNext == ApplyRules

vars == <<cfgVars, giftVars, storeVars, orderVars, payCfgVars, payVars, callVars>>

SpecGift == GiftInit /\ [][GiftNext]_vars

HasGiftLine(items) == \E i \in DOMAIN items : isFreeGift(items[i].product_id)

\* C4: applying the free gift rules twice in a row returns the same item
\* list as applying them once, for every cart (also one that already holds
\* several gift lines) and every threshold.
FreeGiftIdempotent == gApplied = 2 => gCart = gOnce

StorePrice_client(item) == item.unit_price
StorePrice(item) == products[item.product_id].price

RECURSIVE ValidateLines(_)
\* The loop over the submitted lines: gift lines are skipped, a line whose
\* product has no row or is inactive throws, every other line is re-priced
\* from the products table.  The result is [err, items]; err is "none",
\* "notFound" or "inactive" and names the first line that threw.
ValidateLines(cartItems) ==
  IF cartItems = <<>> THEN [err |-> "none", product |-> 0, items |-> <<>>]
  ELSE
    LET item == cartItems[1]
        rest == ValidateLines(Tail(cartItems))
    IN  IF isFreeGift(item.product_id) THEN rest
        ELSE IF item.product_id \notin DOMAIN products
          THEN [err |-> "notFound", product |-> item.product_id, items |-> <<>>]
        ELSE IF ~products[item.product_id].is_active
          THEN [err |-> "inactive", product |-> item.product_id, items |-> <<>>]
        ELSE IF rest.err # "none" THEN rest
        ELSE [err |-> "none", product |-> 0,
              items |-> <<CartItem(item.product_id, item.quantity,
                                   StorePrice(item))>> \o rest.items]

validateAndApplyFreeGift(cartItems) ==
  LET v == ValidateLines(cartItems)
  IN  IF v.err # "none" THEN v
      ELSE [v EXCEPT !.items = applyFreeGiftRules(v.items)]

(***************************************************************************)
(* createOrder                                                             *)
(***************************************************************************)
\* longest cart_items array of a request
MaxOrderLines == 2

\* order numbers the date + 5 random digits may produce
OrderNumbers == {"ORD-20240101-12345", "ORD-20240101-67890"}

ClientPrices == {0, 5}
OrderLines ==
  {CartItem(p, q, u) : p \in 1..3, q \in 0..MaxQty, u \in ClientPrices}
    \cup {CartItem(4, 1, 5), CartItem(5, 1, 5)}
OrderCarts == UNION {[1..n -> OrderLines] : n \in 0..MaxOrderLines}

OrderRequests ==
  {[fieldsOk |-> f, cartKind |-> "array", cart_items |-> c] :
      f \in BOOLEAN, c \in OrderCarts}
    \cup {[fieldsOk |-> TRUE, cartKind |-> k, cart_items |-> <<>>] :
            k \in {"missing", "notArray"}}

\* totalPrice = item.unit_price * item.quantity
TotalPrice_unit(item) == item.unit_price
TotalPrice(item) == item.unit_price * item.quantity

\* totalAmount = validatedCartItems.reduce(sum + unit_price * quantity)
TotalAmount(items) == SumLines(items)

OrderRow(id, number, total, phone) ==
  [id |-> id, order_number |-> number, total_amount |-> total,
   payment_status |-> "pending", fulfill_status |-> "pending",
   customer_phone |-> phone]

ItemRow(orderId, item) ==
  [order_id |-> orderId, product_id |-> item.product_id,
   quantity |-> item.quantity, unit_price |-> item.unit_price,
   total_price |-> TotalPrice(item), is_free_gift |-> isFreeGift(item.product_id)]

\* CHECK (quantity > 0) of order_items
QuantityCheck(q) == q > 0

\* rows another connection reads / rows the transaction's own connection reads
OwnView == orders \o txOrders

\* connection.rollback(): the rows written by the transaction are dropped
Rollback_keep(committed, pending) == committed \o pending
Rollback(committed, pending) == committed

\* connection.commit(): the rows written by the transaction become visible
Commit(committed, pending) == committed \o pending

\* the loop over requiredFields, then
\* !Array.isArray(cart_items) || cart_items.length === 0
RequestInvalid_fields(r) == ~r.fieldsOk
RequestInvalid(r) ==
  \/ ~r.fieldsOk
  \/ r.cartKind = "missing"
  \/ r.cartKind = "notArray"
  \/ r.cart_items = <<>>

\* validation of the body, validateAndApplyFreeGift, total and order number
OrderRequest ==
  /\ oPc = "idle"
  /\ \E r \in OrderRequests, n \in OrderNumbers :
       /\ oReq' = r
       /\ IF RequestInvalid(r)
          THEN /\ oPc' = "responded"
               /\ oStatus' = 400
               /\ UNCHANGED <<oValidated, oTotal, oNumber>>
          ELSE LET v == validateAndApplyFreeGift(r.cart_items)
               IN  IF v.err # "none"
                   THEN /\ oPc' = "responded"
                        /\ oStatus' = 500
                        /\ UNCHANGED <<oValidated, oTotal, oNumber>>
                   ELSE /\ oPc' = "validated"
                        /\ oValidated' = v.items
                        /\ oTotal' = TotalAmount(v.items)
                        /\ oNumber' = n
                        /\ UNCHANGED oStatus
  /\ UNCHANGED <<oId, oIdx, txOrders, txItems, oFailedAt, oFirstId>>
  /\ UNCHANGED <<callVars, cfgVars, giftVars, storeVars, payCfgVars, payVars>>

\* pool.getConnection() and connection.beginTransaction()
TxBegin ==
  /\ oPc = "validated"
  /\ \E outcome \in {"ok", "noConnection", "beginFailed"} :
       CASE outcome = "ok" ->
              /\ oPc' = "begun"
              /\ UNCHANGED <<oFailedAt, oStatus>>
         [] outcome = "noConnection" ->
              /\ oPc' = "responded"
              /\ oStatus' = 500
              /\ UNCHANGED oFailedAt
         [] OTHER ->
              /\ oPc' = "failed"
              /\ oFailedAt' = "begin"
              /\ UNCHANGED oStatus
  /\ UNCHANGED <<oReq, oValidated, oTotal, oNumber, oId, oIdx, txOrders, txItems, oFirstId>>
  /\ UNCHANGED <<callVars, cfgVars, giftVars, storeVars, payCfgVars, payVars>>

\* INSERT INTO orders; order_number is UNIQUE
TxInsertOrder ==
  /\ oPc = "begun"
  /\ \E dbOk \in BOOLEAN :
       IF dbOk /\ ~\E i \in DOMAIN orders : orders[i].order_number = oNumber
       THEN /\ txOrders' = Append(txOrders, OrderRow(nextOrderId, oNumber, oTotal, "0812345678"))
            /\ nextOrderId' = nextOrderId + 1
            /\ oPc' = "inserted"
            /\ UNCHANGED oFailedAt
       ELSE /\ oPc' = "failed"
            /\ oFailedAt' = "insert"
            /\ UNCHANGED <<txOrders, nextOrderId>>
  /\ UNCHANGED <<oReq, oValidated, oTotal, oNumber, oId, oIdx, txItems, oStatus, oFirstId>>
  /\ UNCHANGED <<callVars, cfgVars, giftVars, orders, order_items, payCfgVars, payVars>>

\* orderId = connection.insertId, or the row found by order_number
TxGetOrderId ==
  /\ oPc = "inserted"
  /\ \E hasInsertId \in BOOLEAN, dbOk \in BOOLEAN :
       LET found == SelectSeq(OwnView, LAMBDA o : o.order_number = oNumber)
       IN  IF hasInsertId
           THEN /\ oId' = txOrders[Len(txOrders)].id
                /\ oPc' = "haveId"
                /\ UNCHANGED oFailedAt
           ELSE IF dbOk /\ found # <<>>
           THEN /\ oId' = found[1].id
                /\ oPc' = "haveId"
                /\ UNCHANGED oFailedAt
           ELSE /\ oPc' = "failed"
                /\ oFailedAt' = "lookup"
                /\ UNCHANGED oId
  /\ UNCHANGED <<oReq, oValidated, oTotal, oNumber, oIdx, txOrders, txItems, oStatus, oFirstId>>
  /\ UNCHANGED <<callVars, cfgVars, giftVars, storeVars, payCfgVars, payVars>>

\* one INSERT INTO order_items of the loop
TxInsertItem ==
  /\ oPc = "haveId"
  /\ oIdx < Len(oValidated)
  /\ \E dbOk \in BOOLEAN :
       LET item == oValidated[oIdx + 1]
       IN  IF dbOk /\ QuantityCheck(item.quantity)
           THEN /\ txItems' = Append(txItems, ItemRow(oId, item))
                /\ oIdx' = oIdx + 1
                /\ UNCHANGED <<oPc, oFailedAt>>
           ELSE /\ oPc' = "failed"
                /\ oFailedAt' = "item"
                /\ UNCHANGED <<txItems, oIdx>>
  /\ UNCHANGED <<oReq, oValidated, oTotal, oNumber, oId, txOrders, oStatus, oFirstId>>
  /\ UNCHANGED <<callVars, cfgVars, giftVars, storeVars, payCfgVars, payVars>>

\* connection.commit()
TxCommit ==
  /\ oPc = "haveId"
  /\ oIdx = Len(oValidated)
  /\ \E dbOk \in BOOLEAN :
       IF dbOk
       THEN /\ orders' = Commit(orders, txOrders)
            /\ order_items' = Commit(order_items, txItems)
            /\ txOrders' = <<>>
            /\ txItems' = <<>>
            /\ oPc' = "committed"
            /\ UNCHANGED oFailedAt
       ELSE /\ oPc' = "failed"
            /\ oFailedAt' = "commit"
            /\ UNCHANGED <<orders, order_items, txOrders, txItems>>
  /\ UNCHANGED <<oReq, oValidated, oTotal, oNumber, oId, oIdx, oStatus, oFirstId>>
  /\ UNCHANGED <<callVars, cfgVars, giftVars, nextOrderId, payCfgVars, payVars>>

\* the SELECT of the created order and the 201 response; a failing SELECT
\* is caught like any other error of the try block
OrderRespond ==
  /\ oPc = "committed"
  /\ \E dbOk \in BOOLEAN :
       IF dbOk
       THEN /\ oPc' = "responded"
            /\ oStatus' = 201
            /\ UNCHANGED oFailedAt
       ELSE /\ oPc' = "failed"
            /\ oFailedAt' = "fetch"
            /\ UNCHANGED oStatus
  /\ UNCHANGED <<oReq, oValidated, oTotal, oNumber, oId, oIdx, txOrders, txItems, oFirstId>>
  /\ UNCHANGED <<callVars, cfgVars, giftVars, storeVars, payCfgVars, payVars>>

\* catch: connection.rollback(), the 500 response, connection.release()
TxRollback ==
  /\ oPc = "failed"
  /\ orders' = Rollback(orders, txOrders)
  /\ order_items' = Rollback(order_items, txItems)
  /\ txOrders' = <<>>
  /\ txItems' = <<>>
  /\ oPc' = "responded"
  /\ oStatus' = 500
  /\ UNCHANGED <<oReq, oValidated, oTotal, oNumber, oId, oIdx, oFailedAt, oFirstId>>
  /\ UNCHANGED <<callVars, cfgVars, giftVars, nextOrderId, payCfgVars, payVars>>

(***************************************************************************)
(* Specification SpecOrder: one createOrder request against a store that   *)
(* is empty or already holds an order                                      *)
(***************************************************************************)
ExistingItem == CartItem(2, 1, 99999)

StoreWithOrder ==
  /\ orders = <<OrderRow(1, "ORD-20240101-12345", 99999, "0899999999")>>
  /\ order_items = <<ItemRow(1, ExistingItem)>>
  /\ nextOrderId = 2

OrderInit ==
  /\ CallsIdle
  /\ CfgInit
  /\ GiftIdle
  /\ (StoreEmpty \/ StoreWithOrder)
  /\ OrderIdle
  /\ PayIdle

OrderNext ==
  \/ OrderRequest
  \/ TxBegin
  \/ TxInsertOrder
  \/ TxGetOrderId
  \/ TxInsertItem
  \/ TxCommit
  \/ OrderRespond
  \/ TxRollback

SpecOrder == OrderInit /\ [][OrderNext]_vars

ItemsOf(id) == SelectSeq(order_items, LAMBDA it : it.order_id = id)

RECURSIVE SumTotalPrice(_)
SumTotalPrice(rows) ==
  IF rows = <<>> THEN 0 ELSE rows[1].total_price + SumTotalPrice(Tail(rows))

\* the rows of this request: the store holds no other row with an id from
\* oFirstId on
NewOrders == SelectSeq(orders, LAMBDA o : o.id >= oFirstId)
NewItems  == SelectSeq(order_items, LAMBDA it : it.order_id >= oFirstId)

\* C2: a createOrder that fails at a step of the transaction (begin, the
\* order insert, the order-id lookup, the insert of any item, the commit)
\* leaves no Order and no OrderItem row of that attempt in the store, and
\* in no state does another connection read an Order of the attempt without
\* its complete set of items.
OrderCreationAtomic ==
  /\ (oFailedAt \in {"begin", "insert", "lookup", "item", "commit"}
        /\ oPc = "responded")
       => (NewOrders = <<>> /\ NewItems = <<>>)
  /\ \A i \in DOMAIN orders :
       orders[i].id >= oFirstId =>
         ItemsOf(orders[i].id) = [k \in DOMAIN oValidated |-> ItemRow(orders[i].id, oValidated[k])]
  /\ \A k \in DOMAIN order_items :
       \E i \in DOMAIN orders : orders[i].id = order_items[k].order_id

\* the insert of the last of several items failed and the request was answered
OrderCreationAtomicWitness ==
  /\ oPc = "responded"
  /\ oFailedAt = "item"
  /\ Len(oValidated) >= 2
  /\ oIdx = Len(oValidated) - 1
  /\ NewOrders = <<>>

MaxPayCalls == 2
MaxDeliveries == 2

OrderIndex(id) == CHOOSE i \in DOMAIN orders : orders[i].id = id
OrderExists(id) == \E i \in DOMAIN orders : orders[i].id = id

\* NOW() of an insert: TIMESTAMP has a resolution of one second, so a new
\* row gets the created_at of the newest row or a later one
LastCreatedAt(pays) == IF pays = <<>> THEN 0 ELSE pays[Len(pays)].created_at
InsertTimes(pays) ==
  IF pays = <<>> THEN {1} ELSE {LastCreatedAt(pays), LastCreatedAt(pays) + 1}

\* INSERT INTO payments (order_id, gateway, amount, status) VALUES (?, ?, ?, 'pending')
PaymentRow(id, orderId, gateway, amount, t) ==
  [id |-> id, order_id |-> orderId, gateway |-> gateway,
   gateway_transaction_id |-> "", amount |-> amount, status |-> "pending",
   raw_response |-> NoPayload, created_at |-> t]

\* method === 'qr' ? 'tmw' : 'card'
GatewayOf(method) == IF method = "qr" THEN "tmw" ELSE "card"

\* WHERE order_id = ? ORDER BY created_at DESC LIMIT 1; 0 if no row matches
LatestPaymentIndex_pending(pays, orderId) ==
  LET pending == {i \in DOMAIN pays : pays[i].order_id = orderId /\ pays[i].status = "pending"}
      mine    == {i \in DOMAIN pays : pays[i].order_id = orderId}
      pool    == IF pending # {} THEN pending ELSE mine
  IN  IF pool = {} THEN 0 ELSE CHOOSE i \in pool : \A j \in pool : j <= i
LatestPaymentIndex(pays, orderId) ==
  LET mine   == {i \in DOMAIN pays : pays[i].order_id = orderId}
      newest == {i \in mine : \A j \in mine : pays[j].created_at <= pays[i].created_at}
  IN  IF mine = {} THEN 0
      ELSE IF tieFirst = "low"
        THEN CHOOSE i \in newest : \A j \in newest : i <= j
        ELSE CHOOSE i \in newest : \A j \in newest : j <= i

(***************************************************************************)
(* PaymentService.createPayment and its controller                         *)
(***************************************************************************)
\* createPayment: !this.moneyspecSecretId || !this.moneyspecSecretKey
CredentialsMissing == ~moneyspecSecretId \/ ~moneyspecSecretKey
\* generateJwtPayload: the same test, throwing before any request
JwtCredentialsMissing == ~moneyspecSecretId \/ ~moneyspecSecretKey

\* outcomes of the gateway for the token request and the options request
TokenOutcomes == {"ok", "rejected", "unreachable", "timeout", "protocol"}
OptionsOutcomes == {"ok", "failed"}

GatewayToken == [mock |-> FALSE, id |-> 1]
\* `MOCK-${paymentId}-${Date.now()}`
MockToken(paymentId) == [mock |-> TRUE, id |-> paymentId]

\* the object createPaymentFallback returns
FallbackResponse_plain(paymentId) ==
  [kind |-> "returned", status |-> 200,
   paymentUrl |-> [prefix |-> "/merchantapi/v2/payment?token=", token |-> MockToken(paymentId)],
   transactionId |-> MockToken(paymentId)]
FallbackResponse(paymentId) ==
  [kind |-> "returned", status |-> 200,
   paymentUrl |-> [prefix |-> "#fallback-", token |-> MockToken(paymentId)],
   transactionId |-> MockToken(paymentId)]

\* the object createPayment returns after the gateway issued a token
GatewayResponse(token) ==
  [kind |-> "returned", status |-> 200,
   paymentUrl |-> [prefix |-> "/merchantapi/v2/payment?token=", token |-> token],
   transactionId |-> token]

\* the error createPayment throws, answered 500 by the error handler
Thrown == [NoResult EXCEPT !.kind = "thrown", !.status = 500]
Rejected(status) == [NoResult EXCEPT !.kind = "rejected", !.status = status]

\* catch (tokenError): return this.createPaymentFallback(order, method)
AfterTokenError_throw == [pc |-> "done", result |-> Thrown]
AfterTokenError == [pc |-> "fallback", result |-> NoResult]

PayOrderIds == {1, 2, 3, 4, 9}

\* the two checks of the controller on the order's payment_status:
\* === 'paid', then !== 'pending'
InvalidPaymentState_paid(order) == order.payment_status = "paid"
InvalidPaymentState(order) ==
  order.payment_status = "paid" \/ order.payment_status # "pending"

\* the controller: read the order and check its payment_status
PayRequest(r) ==
  /\ pay[r].pc = "idle"
  /\ payCalls < MaxPayCalls
  /\ payCalls' = payCalls + 1
  /\ \E id \in PayOrderIds, m \in {"qr", "card"} :
       IF ~OrderExists(id)
       THEN pay' = [pay EXCEPT ![r] = [PayIdleRec EXCEPT !.pc = "done", !.orderId = id,
                                         !.method = m, !.result = Rejected(404)]]
       ELSE IF InvalidPaymentState(orders[OrderIndex(id)])
       THEN pay' = [pay EXCEPT ![r] = [PayIdleRec EXCEPT !.pc = "done", !.orderId = id,
                                         !.method = m, !.result = Rejected(400)]]
       ELSE pay' = [pay EXCEPT ![r] = [PayIdleRec EXCEPT !.pc = "service", !.orderId = id,
                                         !.method = m,
                                         !.amount = orders[OrderIndex(id)].total_amount]]
  /\ UNCHANGED <<callVars, cfgVars, giftVars, storeVars, orderVars, payCfgVars, payments, hook, deliveries>>

\* createPayment: the credentials check, then createPaymentRecord
PayStart(r) ==
  /\ pay[r].pc = "service"
  /\ IF CredentialsMissing
     THEN /\ pay' = [pay EXCEPT ![r].pc = "fallback"]
          /\ UNCHANGED payments
     ELSE \E dbOk \in BOOLEAN, t \in InsertTimes(payments) :
            IF dbOk
            THEN /\ payments' = Append(payments,
                      PaymentRow(Len(payments) + 1, pay[r].orderId,
                                 GatewayOf(pay[r].method), pay[r].amount, t))
                 /\ pay' = [pay EXCEPT ![r].pc = "token",
                                       ![r].inserted = pay[r].inserted + 1]
            ELSE /\ pay' = [pay EXCEPT ![r].pc = "done", ![r].dbFailed = TRUE,
                                       ![r].result = Thrown]
                 /\ UNCHANGED payments
  /\ UNCHANGED <<callVars, cfgVars, giftVars, storeVars, orderVars, payCfgVars, payCalls, hook, deliveries>>

\* createPaymentToken: an amount that is not positive and missing
\* credentials throw before any request is sent
PayToken(r) ==
  /\ pay[r].pc = "token"
  /\ IF pay[r].amount <= 0 \/ JwtCredentialsMissing
     THEN pay' = [pay EXCEPT ![r].pc = AfterTokenError.pc, ![r].gwFailed = TRUE,
                             ![r].result = AfterTokenError.result]
     ELSE \E outcome \in TokenOutcomes :
            IF outcome = "ok"
            THEN pay' = [pay EXCEPT ![r].pc = "options", ![r].token = GatewayToken,
                                    ![r].gwCalls = pay[r].gwCalls + 1]
            ELSE pay' = [pay EXCEPT ![r].pc = AfterTokenError.pc, ![r].gwFailed = TRUE,
                                    ![r].gwCalls = pay[r].gwCalls + 1,
                                    ![r].result = AfterTokenError.result]
  /\ UNCHANGED <<callVars, cfgVars, giftVars, storeVars, orderVars, payCfgVars, payments, payCalls, hook, deliveries>>

\* getPaymentOptions; a failure leaves options null and the token is returned
PayOptions(r) ==
  /\ pay[r].pc = "options"
  /\ \E outcome \in OptionsOutcomes :
       pay' = [pay EXCEPT ![r].pc = "done",
                          ![r].gwCalls = pay[r].gwCalls + 1,
                          ![r].gwFailed = (outcome # "ok"),
                          ![r].result = GatewayResponse(pay[r].token)]
  /\ UNCHANGED <<callVars, cfgVars, giftVars, storeVars, orderVars, payCfgVars, payments, payCalls, hook, deliveries>>

\* createPaymentFallback: createPaymentRecord, then the mock response; an
\* error of the insert is rethrown by the catch of createPayment
PayFallback(r) ==
  /\ pay[r].pc = "fallback"
  /\ \E dbOk \in BOOLEAN, t \in InsertTimes(payments) :
       IF dbOk
       THEN /\ payments' = Append(payments,
                 PaymentRow(Len(payments) + 1, pay[r].orderId,
                            GatewayOf(pay[r].method), pay[r].amount, t))
            /\ pay' = [pay EXCEPT ![r].pc = "done",
                                  ![r].inserted = pay[r].inserted + 1,
                                  ![r].result = FallbackResponse(Len(payments) + 1)]
       ELSE /\ pay' = [pay EXCEPT ![r].pc = "done", ![r].dbFailed = TRUE,
                                  ![r].result = Thrown]
            /\ UNCHANGED payments
  /\ UNCHANGED <<callVars, cfgVars, giftVars, storeVars, orderVars, payCfgVars, payCalls, hook, deliveries>>

\* the response has been sent; the next request may arrive
PayFinish(r) ==
  /\ pay[r].pc = "done"
  /\ pay' = [pay EXCEPT ![r] = PayIdleRec]
  /\ UNCHANGED <<callVars, cfgVars, giftVars, storeVars, orderVars, payCfgVars, payments, payCalls, hook, deliveries>>

(***************************************************************************)
(* SMSService                                                              *)
(***************************************************************************)
\* sendSMS: whatever the body of the try block raises is caught and turned
\* into the return value false; logSMS swallows its own errors
sendSMS_rethrow(bodyThrows) == IF bodyThrows THEN "throw" ELSE "true"
sendSMS(bodyThrows) == IF bodyThrows THEN "false" ELSE "true"

sendNotification(bodyThrows) == sendSMS(bodyThrows)

(***************************************************************************)
(* PaymentService.handleWebhook                                            *)
(***************************************************************************)
\* a || b of JavaScript on strings; the empty string stands for a missing key
Or_first(a, b) == a
Or(a, b) == IF a # "" THEN a ELSE b

transactionIdOf(payload) == Or(payload.transaction_id, payload.id)
orderNumberOf(payload)   == Or(payload.order_id, payload.order_number)
statusOf(payload)        == Or(payload.status, payload.payment_status)

\* status === 'success' ? 'success' : 'failed'
PaymentStatusOf(status) == IF status = "success" THEN "success" ELSE "failed"
\* status === 'success' ? 'paid' : 'failed'
OrderStatusOf(status) == IF status = "success" THEN "paid" ELSE "failed"

\* if (status === 'success') before the notification
ShouldNotify_always(status) == TRUE
ShouldNotify(status) == status = "success"

\* SELECT id FROM orders WHERE order_number = ?
OrdersByNumber(ords, number) == SelectSeq(ords, LAMBDA o : o.order_number = number)

\* UPDATE payments SET gateway_transaction_id, status, raw_response
\* WHERE order_id = ? ORDER BY created_at DESC LIMIT 1
UpdateLatestPayment(pays, orderId, payload) ==
  LET k == LatestPaymentIndex(pays, orderId)
  IN  IF k = 0 THEN pays
      ELSE [pays EXCEPT ![k].gateway_transaction_id = transactionIdOf(payload),
                        ![k].status = PaymentStatusOf(statusOf(payload)),
                        ![k].raw_response = payload]

\* UPDATE orders SET payment_status = ? WHERE id = ?
UpdateOrderStatus_all(ords, orderId, payload) ==
  [i \in DOMAIN ords |->
     [ords[i] EXCEPT !.payment_status = OrderStatusOf(statusOf(payload))]]
UpdateOrderStatus(ords, orderId, payload) ==
  [i \in DOMAIN ords |->
     IF ords[i].id = orderId
     THEN [ords[i] EXCEPT !.payment_status = OrderStatusOf(statusOf(payload))]
     ELSE ords[i]]

Payload(variant, txn, number, st) ==
  IF variant = "a"
  THEN [NoPayload EXCEPT !.transaction_id = txn, !.order_id = number, !.status = st]
  ELSE [NoPayload EXCEPT !.id = txn, !.order_number = number, !.payment_status = st]

PayloadVariants == {"a", "b"}
PayloadOrderNumbers == OrderNumbers \cup {"ORD-20240101-00000"}
PayloadStatuses == {"success", "failed"}
Payloads ==
  {Payload(v, "TXN1", n, st) :
     v \in PayloadVariants, n \in PayloadOrderNumbers, st \in PayloadStatuses}

HookDone(h, ok) ==
  [hook EXCEPT ![h].pc = "done",
               ![h].result = IF ok THEN [success |-> TRUE, orderId |-> hook[h].orderId]
                                   ELSE [success |-> FALSE, orderId |-> 0]]

\* handleWebhook up to the order lookup: field extraction, the SELECT, and
\* the throw when no row matches
Received(h, p, dbOk) ==
  LET rows == OrdersByNumber(orders, orderNumberOf(p))
  IN  IF dbOk /\ rows # <<>>
      THEN [HookIdleRec EXCEPT !.pc = "updatePayment",
                               !.payload = p, !.orderId = rows[1].id,
                               !.repeat = (p = hook[h].payload)]
      ELSE [HookIdleRec EXCEPT !.pc = "done", !.payload = p, !.dbFailed = ~dbOk]

\* the delivery arrives; field extraction and the order lookup
HookReceive(h) ==
  /\ hook[h].pc = "idle"
  /\ deliveries < MaxDeliveries
  /\ deliveries' = deliveries + 1
  /\ \E p \in Payloads, dbOk \in BOOLEAN :
       hook' = [hook EXCEPT ![h] = Received(h, p, dbOk)]
  /\ UNCHANGED <<callVars, cfgVars, giftVars, storeVars, orderVars, payCfgVars, payments, pay, payCalls>>

\* UPDATE payments
HookUpdatePayment(h) ==
  /\ hook[h].pc = "updatePayment"
  /\ \E dbOk \in BOOLEAN :
       IF dbOk
       THEN /\ payments' = UpdateLatestPayment(payments, hook[h].orderId, hook[h].payload)
            /\ hook' = [hook EXCEPT ![h].pc = "updateOrder"]
       ELSE /\ hook' = [HookDone(h, FALSE) EXCEPT ![h].dbFailed = TRUE]
            /\ UNCHANGED payments
  /\ UNCHANGED <<callVars, cfgVars, giftVars, storeVars, orderVars, payCfgVars, pay, payCalls, deliveries>>

\* UPDATE orders
HookUpdateOrder(h) ==
  /\ hook[h].pc = "updateOrder"
  /\ \E dbOk \in BOOLEAN :
       IF dbOk
       THEN /\ orders' = UpdateOrderStatus(orders, hook[h].orderId, hook[h].payload)
            /\ hook' = IF ShouldNotify(statusOf(hook[h].payload))
                       THEN [hook EXCEPT ![h].pc = "notify"]
                       ELSE HookDone(h, TRUE)
       ELSE /\ hook' = [HookDone(h, FALSE) EXCEPT ![h].dbFailed = TRUE]
            /\ UNCHANGED orders
  /\ UNCHANGED <<callVars, cfgVars, giftVars, order_items, nextOrderId, orderVars, payCfgVars,
                 payments, pay, payCalls, deliveries>>

\* the SELECT of customer_phone and order_number, then
\* await smsService.sendNotification(...), then the return
HookNotify(h) ==
  /\ hook[h].pc = "notify"
  /\ \E dbOk \in BOOLEAN, bodyThrows \in BOOLEAN :
       LET o == orders[OrderIndex(hook[h].orderId)]
           r == sendNotification(bodyThrows)
       IN  IF ~dbOk
           THEN hook' = [HookDone(h, FALSE) EXCEPT ![h].dbFailed = TRUE]
           ELSE hook' = [HookDone(h, r # "throw") EXCEPT
                           ![h].sms = [sent |-> TRUE, phone |-> o.customer_phone,
                                       order_number |-> o.order_number, ok |-> (r = "true")]]
  /\ UNCHANGED <<callVars, cfgVars, giftVars, storeVars, orderVars, payCfgVars, payments, pay,
                 payCalls, deliveries>>

\* the HTTP response has been sent; the next delivery may arrive.  The
\* payload of a delivery answered with success stays on record, so that a
\* redelivery of it can be told from a first delivery.
HookFinish(h) ==
  /\ hook[h].pc = "done"
  /\ hook' = [hook EXCEPT ![h] =
                 [HookIdleRec EXCEPT !.payload = IF hook[h].result.success
                                                 THEN hook[h].payload ELSE NoPayload]]
  /\ UNCHANGED <<callVars, cfgVars, giftVars, storeVars, orderVars, payCfgVars, payments, pay,
                 payCalls, deliveries>>

(***************************************************************************)
(* The webhook routes: handleMoneySpaceWebhook and handleMoneyspecWebhook   *)
(***************************************************************************)
\* POST /api/payments/moneyspace/webhook and /api/payments/moneyspec/webhook
Routes == {"moneyspace", "moneyspec"}

\* the X-Moneyspec-Signature header: absent, empty, or a non-empty string
Signatures ==
  {NoSignature, [present |-> TRUE, length |-> 0], [present |-> TRUE, length |-> 1]}

NodeEnvs == {"", "development", "production"}

\* signature && signature.length > 0
SignatureGiven(signature) == signature.present /\ signature.length > 0

\* verifyMoneyspecWebhook: true without credentials, else the signature
\* has to be a non-empty string
verifyMoneyspecWebhook(signature) ==
  IF CredentialsMissing THEN TRUE ELSE SignatureGiven(signature)

\* process.env.NODE_ENV === 'development' || !process.env.NODE_ENV
isDevelopment == nodeEnv = "development" \/ nodeEnv = ""

\* only handleMoneyspecWebhook verifies; it answers 401 when the
\* verification fails outside development
SignatureRejected(route, signature) ==
  /\ route = "moneyspec"
  /\ ~verifyMoneyspecWebhook(signature)
  /\ ~isDevelopment

\* res.json(...) when result.success, else res.status(400)
HttpStatusOf_ok(result) == 200
HttpStatusOf(result) == IF result.success THEN 200 ELSE 400

RoutePayloads ==
  {Payload(v, "TXN1", n, st) :
     v \in PayloadVariants,
     n \in {"ORD-20240101-12345", "ORD-20240101-00000"}, st \in PayloadStatuses}

\* a request arrives at one of the routes: the signature check of the
\* route, then handleWebhook up to the order lookup
RouteReceive(h) ==
  /\ hook[h].pc = "idle"
  /\ deliveries < MaxDeliveries
  /\ deliveries' = deliveries + 1
  /\ \E route \in Routes, signature \in Signatures, p \in RoutePayloads, dbOk \in BOOLEAN :
       IF SignatureRejected(route, signature)
       THEN hook' = [hook EXCEPT ![h] = [HookIdleRec EXCEPT !.pc = "responded", !.payload = p,
                                           !.route = route, !.signature = signature,
                                           !.http = 401]]
       ELSE hook' = [hook EXCEPT ![h] = [Received(h, p, dbOk) EXCEPT
                                           !.route = route, !.signature = signature]]
  /\ UNCHANGED <<callVars, cfgVars, giftVars, storeVars, orderVars, payCfgVars, payments, pay, payCalls>>

\* the controller answers with the result of handleWebhook
RouteRespond(h) ==
  /\ hook[h].pc = "done"
  /\ hook' = [hook EXCEPT ![h].pc = "responded", ![h].http = HttpStatusOf(hook[h].result)]
  /\ UNCHANGED <<callVars, cfgVars, giftVars, storeVars, orderVars, payCfgVars, payments, pay,
                 payCalls, deliveries>>

\* the response has been sent; the next request may arrive
RouteFinish(h) ==
  /\ hook[h].pc = "responded"
  /\ hook' = [hook EXCEPT ![h] = HookIdleRec]
  /\ UNCHANGED <<callVars, cfgVars, giftVars, storeVars, orderVars, payCfgVars, payments, pay,
                 payCalls, deliveries>>

(***************************************************************************)
(* The store the payment endpoints work on: two pending orders (the second *)
(* with a total of 0), one order that is already paid and one that failed  *)
(***************************************************************************)
StorePending ==
  /\ orders = <<OrderRow(1, "ORD-20240101-12345", 99999, "0899999999"),
                OrderRow(2, "ORD-20240101-67890", 0, "0812345678"),
                [OrderRow(3, "ORD-20240101-11111", 1, "0811111111")
                   EXCEPT !.payment_status = "paid"],
                [OrderRow(4, "ORD-20240101-22222", 1, "0822222222")
                   EXCEPT !.payment_status = "failed"]>>
  /\ order_items = <<ItemRow(1, ExistingItem)>>
  /\ nextOrderId = 5

\* the environment defaults of FreeGiftService and the seeded catalogue
CfgDefault ==
  /\ freeGiftProductId = freeGiftProductIdDefault
  /\ minSubtotal = minSubtotalDefault
  /\ products = ProductTable(TRUE)

ServicesIdle ==
  /\ GiftIdle
  /\ OrderIdle
  /\ pay = [r \in PayReqs |-> PayIdleRec]
  /\ payCalls = 0
  /\ hook = [h \in Hooks |-> HookIdleRec]
  /\ deliveries = 0

(***************************************************************************)
(* Specification SpecPay: POST /payments/create requests                   *)
(***************************************************************************)
PayInit ==
  /\ CallsIdle
  /\ CfgDefault
  /\ StorePending
  /\ ServicesIdle
  /\ moneyspecSecretId \in BOOLEAN
  /\ moneyspecSecretKey \in BOOLEAN
  /\ tieFirst = "low"
  /\ nodeEnv = ""
  /\ payments = <<>>

PayNext ==
  \/ \E r \in PayReqs : PayRequest(r)
  \/ \E r \in PayReqs : PayStart(r)
  \/ \E r \in PayReqs : PayToken(r)
  \/ \E r \in PayReqs : PayOptions(r)
  \/ \E r \in PayReqs : PayFallback(r)
  \/ \E r \in PayReqs : PayFinish(r)

SpecPay == PayInit /\ [][PayNext]_vars

(***************************************************************************)
(* Specification SpecHook: webhook deliveries against the payments that    *)
(* createPayment calls have left behind                                    *)
(***************************************************************************)
\* most Payment rows in the table when the deliveries start
MaxPayRows == 2

\* the tables createPayment calls for the pending orders produce: every row
\* is pending, carries the total of its order, and is stamped by InsertTimes
RECURSIVE PaymentTables(_)
PaymentTables(n) ==
  IF n = 0 THEN {<<>>}
  ELSE LET shorter == PaymentTables(n - 1)
           full    == {t \in shorter : Len(t) = n - 1}
       IN  shorter \cup
           UNION {{Append(t, PaymentRow(n, id, GatewayOf("qr"),
                                        orders[OrderIndex(id)].total_amount, at)) :
                     id \in {1, 2}, at \in InsertTimes(t)} : t \in full}

HookInit ==
  /\ CallsIdle
  /\ CfgDefault
  /\ StorePending
  /\ ServicesIdle
  /\ moneyspecSecretId = TRUE
  /\ moneyspecSecretKey = TRUE
  /\ tieFirst \in {"low", "high"}
  /\ nodeEnv = ""
  /\ payments \in PaymentTables(MaxPayRows)

HookNext ==
  \/ \E h \in Hooks : HookReceive(h)
  \/ \E h \in Hooks : HookUpdatePayment(h)
  \/ \E h \in Hooks : HookUpdateOrder(h)
  \/ \E h \in Hooks : HookNotify(h)
  \/ \E h \in Hooks : HookFinish(h)

SpecHook == HookInit /\ [][HookNext]_vars

(***************************************************************************)
(* Specification SpecRoute: requests at the two webhook routes             *)
(***************************************************************************)
RouteInit ==
  /\ CallsIdle
  /\ CfgDefault
  /\ StorePending
  /\ ServicesIdle
  /\ moneyspecSecretId \in BOOLEAN
  /\ moneyspecSecretKey \in BOOLEAN
  /\ tieFirst = "low"
  /\ nodeEnv \in NodeEnvs
  /\ payments \in PaymentTables(1)

RouteNext ==
  \/ \E h \in Hooks : RouteReceive(h)
  \/ \E h \in Hooks : HookUpdatePayment(h)
  \/ \E h \in Hooks : HookUpdateOrder(h)
  \/ \E h \in Hooks : HookNotify(h)
  \/ \E h \in Hooks : RouteRespond(h)
  \/ \E h \in Hooks : RouteFinish(h)

SpecRoute == RouteInit /\ [][RouteNext]_vars

(***************************************************************************)
(* Specification Spec: payment requests and webhook deliveries interleaved *)
(* on a deployment with both secrets configured                            *)
(***************************************************************************)
Init ==
  /\ CallsIdle
  /\ CfgDefault
  /\ StorePending
  /\ ServicesIdle
  /\ moneyspecSecretId = TRUE
  /\ moneyspecSecretKey = TRUE
  /\ tieFirst = "low"
  /\ nodeEnv = ""
  /\ payments = <<>>

Next == PayNext \/ HookNext

Spec == Init /\ [][Next]_vars

(***************************************************************************)
(* Properties of handleWebhook and createPayment                           *)
(***************************************************************************)
\* C1: once an order's payment_status is 'paid', no later step (the only
\* steps that write it are those of handleWebhook) moves it away from 'paid'.
PaidStaysPaid ==
  [][\A i \in DOMAIN orders :
       orders[i].payment_status = "paid" => orders'[i].payment_status = "paid"]_vars

IsFallback(result) ==
  /\ result.paymentUrl.prefix = "#fallback-"
  /\ result.paymentUrl.token.mock
  /\ result.transactionId.mock

OnePaymentRowPerCall ==
  \A r \in PayReqs :
    (pay[r].pc = "done" /\ pay[r].result.kind = "returned") => pay[r].inserted = 1

\* C8: when createPaymentToken or getPaymentOptions fails and the payments
\* inserts succeed, createPayment returns a response with a paymentUrl and
\* a transactionId; it throws only when an insert into payments failed.
GatewayFailuresAbsorbed ==
  \A r \in PayReqs :
    /\ (pay[r].pc = "done" /\ pay[r].gwFailed /\ ~pay[r].dbFailed) =>
         /\ pay[r].result.kind = "returned"
         /\ pay[r].result.paymentUrl # NoUrl
         /\ pay[r].result.transactionId # NoToken
    /\ pay[r].result.kind = "thrown" => pay[r].dbFailed

\* the gateway was asked for a token, refused, and the call returned
GatewayFailuresAbsorbedWitness ==
  \E r \in PayReqs :
    /\ pay[r].pc = "done"
    /\ pay[r].gwFailed
    /\ pay[r].gwCalls = 1
    /\ pay[r].result.kind = "returned"
    /\ IsFallback(pay[r].result)

Deliver(store, p) ==
  LET rows == OrdersByNumber(store.orders, orderNumberOf(p))
  IN  IF rows = <<>> THEN store
      ELSE [orders   |-> UpdateOrderStatus(store.orders, rows[1].id, p),
            payments |-> UpdateLatestPayment(store.payments, rows[1].id, p)]

KeyedPayload(kt, kn, ks, txn, number, st) ==
  [transaction_id |-> IF kt = "a" THEN txn ELSE "",
   id             |-> IF kt = "b" THEN txn ELSE "",
   order_id       |-> IF kn = "a" THEN number ELSE "",
   order_number   |-> IF kn = "b" THEN number ELSE "",
   status         |-> IF ks = "a" THEN st ELSE "",
   payment_status |-> IF ks = "b" THEN st ELSE ""]

\* the value handleWebhook returns when every statement succeeds
ReturnOf(store, p) ==
  LET rows == OrdersByNumber(store.orders, orderNumberOf(p))
  IN  IF rows = <<>> THEN [success |-> FALSE, orderId |-> 0]
      ELSE [success |-> TRUE, orderId |-> rows[1].id]

\* the columns a delivery reconciles
StatusView(store) ==
  [orders   |-> [i \in DOMAIN store.orders |-> store.orders[i].payment_status],
   payments |-> [k \in DOMAIN store.payments |->
                   <<store.payments[k].status, store.payments[k].gateway_transaction_id>>]]

\* C11: from every state of the store, payloads that carry the same
\* transaction id, order number and status under any mix of the accepted
\* key names give the same return value, the same payment_status of every
\* Order and the same status and transaction id of every Payment row.
FieldNameTolerance ==
  LET store == [orders |-> orders, payments |-> payments]
  IN  \A n \in PayloadOrderNumbers, st \in PayloadStatuses :
        LET q        == KeyedPayload("a", "a", "a", "TXN1", n, st)
            returned == ReturnOf(store, q)
            view     == StatusView(Deliver(store, q))
        IN  \A kt \in PayloadVariants, kn \in PayloadVariants, ks \in PayloadVariants :
              LET p == KeyedPayload(kt, kn, ks, "TXN1", n, st)
              IN  /\ ReturnOf(store, p) = returned
                  /\ StatusView(Deliver(store, p)) = view

\* a delivery that used id / order_number / payment_status was answered
\* with success and has updated a Payment row and the Order
FieldNameToleranceWitness ==
  \E h \in Hooks :
    /\ hook[h].pc = "done"
    /\ hook[h].payload.order_number # ""
    /\ hook[h].payload.payment_status = "success"
    /\ hook[h].result.success
    /\ orders[OrderIndex(hook[h].orderId)].payment_status = "paid"
    /\ \E k \in DOMAIN payments :
         /\ payments[k].raw_response = hook[h].payload
         /\ payments[k].status = "success"
         /\ payments[k].gateway_transaction_id = "TXN1"

(***************************************************************************)
(* Properties of the webhook routes                                        *)
(***************************************************************************)
UnknownOrder(payload) == OrdersByNumber(orders, orderNumberOf(payload)) = <<>>

\* C12: a delivery whose order number matches no Order is answered with
\* {success: false} by handleWebhook and with a status that is not 2xx by
\* the route, and no step of it changes an Order or a Payment row.
UnknownOrderRejected ==
  /\ [](\A h \in Hooks :
          (hook[h].pc # "idle" /\ UnknownOrder(hook[h].payload)) =>
            /\ hook[h].pc \in {"done", "responded"}
            /\ hook[h].result = [success |-> FALSE, orderId |-> 0]
            /\ hook[h].pc = "responded" => hook[h].http \in {400, 401})
  /\ [][\A h \in Hooks :
          (hook'[h].pc # "idle" /\ UnknownOrder(hook'[h].payload))
            => (orders' = orders /\ payments' = payments)]_vars

\* an accepted request for an unknown order was answered 400 while the
\* table holds a Payment row, still pending
UnknownOrderWitness ==
  \E h \in Hooks :
    /\ hook[h].pc = "responded"
    /\ hook[h].http = 400
    /\ ~hook[h].dbFailed
    /\ UnknownOrder(hook[h].payload)
    /\ payments # <<>>
    /\ \A k \in DOMAIN payments : payments[k].status = "pending"

\* C16: with both secrets configured, a request that arrives at a webhook
\* route without a signature or with an empty one is answered 401 before
\* handleWebhook runs.
InvalidSignatureRejected ==
  \A h \in Hooks :
    (/\ ~CredentialsMissing
     /\ hook[h].route \in Routes
     /\ ~SignatureGiven(hook[h].signature))
    => (hook[h].pc = "responded" /\ hook[h].http = 401)

(***************************************************************************)
(* Properties of the reconciliation of handleWebhook                       *)
(***************************************************************************)
\* C13: whenever the latest Payment row of an order carries the payload of
\* a delivery, the Order carries the payment_status of that payload: the
\* two updates are visible together or not at all.
WebhookPersistenceAtomic ==
  \A h \in Hooks :
    LET k == LatestPaymentIndex(payments, hook[h].orderId)
    IN  (/\ hook[h].pc # "idle"
         /\ hook[h].orderId # 0
         /\ k # 0
         /\ payments[k].raw_response = hook[h].payload)
        => orders[OrderIndex(hook[h].orderId)].payment_status
             = OrderStatusOf(statusOf(hook[h].payload))

\* C14: an order whose payment_status is 'failed' keeps it in every later
\* step.
FailedStaysFailed ==
  [][\A i \in DOMAIN orders :
       orders[i].payment_status = "failed" => orders'[i].payment_status = "failed"]_vars

\* C15: from every state of the store, a delivery whose status is
\* "success", "paysuccess" or "OK" leaves the Order 'paid' and its latest
\* Payment row 'success', and a delivery with any other status (missing,
\* 'pending', 'failed', unknown) leaves them 'failed'.
StatusNormalization ==
  \A st \in {"success", "paysuccess", "OK", "", "pending", "failed", "cancelled"},
     n \in OrderNumbers :
    LET p     == Payload("a", "TXN1", n, st)
        after == Deliver([orders |-> orders, payments |-> payments], p)
        id    == OrdersByNumber(orders, n)[1].id
        k     == LatestPaymentIndex(payments, id)
        good  == st \in {"success", "paysuccess", "OK"}
    IN  /\ after.orders[OrderIndex(id)].payment_status = IF good THEN "paid" ELSE "failed"
        /\ k # 0 => after.payments[k].status = IF good THEN "success" ELSE "failed"

\* C20: a delivery with status success for an existing order, whose
\* statements all succeed, has invoked the notification with the stored
\* phone and order number of the order, after both updates; a delivery
\* with another status or for an unknown order has not invoked it; and the
\* notification is invoked in one step of a delivery only.
NotificationOnlyOnSuccess ==
  /\ [](\A h \in Hooks :
          /\ hook[h].pc = "notify" => ~hook[h].sms.sent
          /\ hook[h].pc = "done" =>
               /\ (/\ PaymentStatusOf(statusOf(hook[h].payload)) = "success"
                   /\ ~UnknownOrder(hook[h].payload)
                   /\ ~hook[h].dbFailed)
                  => LET o == orders[OrderIndex(hook[h].orderId)]
                     IN  /\ hook[h].sms.sent
                         /\ hook[h].sms.phone = o.customer_phone
                         /\ hook[h].sms.order_number = o.order_number
                         /\ o.payment_status = "paid"
               /\ (\/ PaymentStatusOf(statusOf(hook[h].payload)) = "failed"
                   \/ UnknownOrder(hook[h].payload))
                  => ~hook[h].sms.sent)
  /\ [][\A h \in Hooks :
          (hook'[h].sms.sent /\ ~hook[h].sms.sent)
            => /\ hook[h].pc = "notify"
               /\ hook'[h].pc = "done"
               /\ orders[OrderIndex(hook[h].orderId)].payment_status = "paid"
               /\ LET k == LatestPaymentIndex(payments, hook[h].orderId)
                  IN  k # 0 => payments[k].status = "success"]_vars

\* the notification went out to the phone of the first order after its
\* Payment row and the Order were updated
NotificationOnlyOnSuccessWitness ==
  \E h \in Hooks :
    /\ hook[h].pc = "done"
    /\ hook[h].sms = [sent |-> TRUE, phone |-> "0899999999",
                      order_number |-> "ORD-20240101-12345", ok |-> TRUE]
    /\ hook[h].result = [success |-> TRUE, orderId |-> 1]
    /\ orders[OrderIndex(1)].payment_status = "paid"
    /\ \E k \in DOMAIN payments : payments[k].order_id = 1 /\ payments[k].status = "success"

(***************************************************************************)
(* Properties of the validation of createOrder                             *)
(***************************************************************************)
\* C17: a request with a required field missing or empty, or whose
\* cart_items is missing, not an array or empty, is answered 400 with no
\* transaction opened and no Order or OrderItem row written.
InvalidRequestRejected ==
  (/\ oPc # "idle"
   /\ (~oReq.fieldsOk \/ oReq.cartKind # "array" \/ oReq.cart_items = <<>>))
  => /\ oPc = "responded"
     /\ oStatus = 400
     /\ oFailedAt = "none"
     /\ txOrders = <<>> /\ txItems = <<>>
     /\ NewOrders = <<>> /\ NewItems = <<>>
     /\ nextOrderId = oFirstId

\* cart_items: [] with every other field given was answered 400 against a
\* store that holds an order
InvalidRequestWitness ==
  /\ oPc = "responded"
  /\ oStatus = 400
  /\ oReq.fieldsOk
  /\ oReq.cartKind = "array"
  /\ oReq.cart_items = <<>>
  /\ orders # <<>>

\* C18: a well-formed request with a line (not the gift product) whose
\* product is missing or inactive is answered with a 4xx status, with no
\* transaction opened and no Order or OrderItem row written.
ProductErrorRejected ==
  (/\ oPc # "idle"
   /\ oReq.fieldsOk /\ oReq.cartKind = "array" /\ oReq.cart_items # <<>>
   /\ ValidateLines(oReq.cart_items).err # "none")
  => /\ oPc = "responded"
     /\ oStatus \in 400..499
     /\ oFailedAt = "none"
     /\ txOrders = <<>> /\ txItems = <<>>
     /\ NewOrders = <<>> /\ NewItems = <<>>

\* what a cart asks for once client prices and gift lines are set aside:
\* the product and quantity of every line that is not the gift product
OrderedLines(cart) ==
  LET lines == SelectSeq(cart, LAMBDA l : ~isFreeGift(l.product_id))
  IN  [i \in DOMAIN lines |-> <<lines[i].product_id, lines[i].quantity>>]

\* the rows the store's prices and the gift rule give for those lines
StorePricedRows(orderId, asked) ==
  LET priced == [i \in DOMAIN asked |->
                   [order_id |-> orderId, product_id |-> asked[i][1],
                    quantity |-> asked[i][2],
                    unit_price |-> products[asked[i][1]].price,
                    total_price |-> products[asked[i][1]].price * asked[i][2],
                    is_free_gift |-> FALSE]]
      gift   == [order_id |-> orderId, product_id |-> freeGiftProductId,
                 quantity |-> 1, unit_price |-> 0, total_price |-> 0,
                 is_free_gift |-> TRUE]
  IN  IF getFreeGiftProduct /\ SumTotalPrice(priced) >= minSubtotal
      THEN Append(priced, gift) ELSE priced

WithoutPaymentStatus(o) == [o EXCEPT !.payment_status = ""]

\* C21: in every step of a webhook delivery the OrderItem rows stay as they
\* are, no Order row is added or removed, every Order row keeps all fields
\* other than payment_status, and an Order row whose payment_status changes
\* is the one whose order_number the payload of the delivery carries
WebhookFrame ==
  [][ /\ order_items' = order_items
      /\ DOMAIN orders' = DOMAIN orders
      /\ \A i \in DOMAIN orders :
           /\ WithoutPaymentStatus(orders'[i]) = WithoutPaymentStatus(orders[i])
           /\ orders'[i] # orders[i] =>
                \E h \in Hooks :
                  /\ hook[h].pc = "updateOrder"
                  /\ orders[i].order_number = orderNumberOf(hook[h].payload) ]_vars

\* a delivery has paid order 1 while orders 2 and 3 and the item rows are
\* as they were before it
WebhookFrameWitness ==
  \E h \in Hooks :
    /\ hook[h].pc = "done"
    /\ hook[h].result.success
    /\ hook[h].orderId = 1
    /\ orders[1].payment_status = "paid"
    /\ orders[2].payment_status = "pending"
    /\ order_items # <<>>

(***************************************************************************)
(* C22: POST /payments/create proceeds only for a pending order            *)
(***************************************************************************)
\* C22: a request for an order whose payment_status is 'paid' or 'failed'
\* is answered 400 and one for an unknown order 404, in both cases at once,
\* with no Payment row inserted and no gateway call made; no Payment row
\* belongs to such an order
InvalidPaymentStateRejected ==
  /\ \A r \in PayReqs :
       pay[r].pc # "idle" =>
         LET id == pay[r].orderId
             refused == IF OrderExists(id)
                        THEN orders[OrderIndex(id)].payment_status \in {"paid", "failed"}
                        ELSE TRUE
         IN  refused =>
               /\ pay[r].pc = "done"
               /\ pay[r].result = Rejected(IF OrderExists(id) THEN 400 ELSE 404)
               /\ pay[r].inserted = 0
               /\ pay[r].gwCalls = 0
  /\ \A k \in DOMAIN payments :
       /\ OrderExists(payments[k].order_id)
       /\ orders[OrderIndex(payments[k].order_id)].payment_status = "pending"

\* a request for the failed order 4 has been answered 400
InvalidPaymentStateWitness ==
  \E r \in PayReqs :
    /\ pay[r].pc = "done"
    /\ pay[r].orderId = 4
    /\ orders[OrderIndex(4)].payment_status = "failed"
    /\ pay[r].result = Rejected(400)
    /\ payments = <<>>

(***************************************************************************)
(* C23: handleWebhook updates the most recently created Payment row of the *)
(* matched order and no other                                              *)
(***************************************************************************)
\* the Payment rows of an order, and the one inserted last (ids grow with
\* every insert)
PaymentsOf(pays, orderId) == {i \in DOMAIN pays : pays[i].order_id = orderId}
MostRecentlyCreated(pays, orderId) ==
  CHOOSE i \in PaymentsOf(pays, orderId) :
    \A j \in PaymentsOf(pays, orderId) : pays[j].id <= pays[i].id

\* C23: when the UPDATE payments of a delivery succeeds for an order that
\* has Payment rows, the row inserted last for that order carries the
\* payload's transaction id, normalized status and raw payload, and every
\* other row (older rows of the order, rows of other orders) is unchanged
LatestPaymentOnly ==
  [][ \A h \in Hooks :
        ( /\ hook[h].pc = "updatePayment"
          /\ hook'[h].pc = "updateOrder"
          /\ PaymentsOf(payments, hook[h].orderId) # {} ) =>
          LET k == MostRecentlyCreated(payments, hook[h].orderId)
          IN  /\ DOMAIN payments' = DOMAIN payments
              /\ payments'[k].gateway_transaction_id = transactionIdOf(hook[h].payload)
              /\ payments'[k].status = PaymentStatusOf(statusOf(hook[h].payload))
              /\ payments'[k].raw_response = hook[h].payload
              /\ \A i \in DOMAIN payments \ {k} : payments'[i] = payments[i] ]_vars

(***************************************************************************)
(* C24: below the threshold the returned list has no gift line             *)
(***************************************************************************)
\* C24: with the gift product in the catalogue, for a cart whose non-gift
\* subtotal is below minSubtotal the list applyFreeGiftRules returns holds
\* no line of the gift product, however many the cart held, and its
\* non-gift lines are those of the cart, unchanged and in order
FreeGiftRemoved ==
  (gApplied >= 1 /\ getFreeGiftProduct /\ Subtotal(gInput) < minSubtotal) =>
    /\ ~HasGiftLine(gOnce)
    /\ NonGift(gOnce) = NonGift(gInput)

(***************************************************************************)
(* C26: the webhook result does not wait for the notification              *)
(***************************************************************************)
\* C26: once a delivery with a success payload has persisted its Payment
\* and Order updates and its notification is still outstanding, the
\* delivery has already returned {success: true, orderId}
NotificationNonBlocking ==
  \A h \in Hooks :
    hook[h].pc = "notify" =>
      hook[h].result = [success |-> TRUE, orderId |-> hook[h].orderId]

(***************************************************************************)
(* C30: Order and Payment agree whenever no request is in progress         *)
(***************************************************************************)
\* no createPayment request and no webhook delivery is in progress
Quiescent ==
  /\ \A r \in PayReqs : pay[r].pc = "idle"
  /\ \A h \in Hooks : hook[h].pc = "idle"

\* C30: in every quiescent state, for every order that has Payment rows,
\* payment_status is 'paid' exactly when the Payment row inserted last for
\* the order is 'success', and 'failed' exactly when that row is 'failed'
OrderPaymentConsistent ==
  Quiescent =>
    \A i \in DOMAIN orders :
      PaymentsOf(payments, orders[i].id) # {} =>
        LET k == MostRecentlyCreated(payments, orders[i].id)
        IN  /\ orders[i].payment_status = "paid" <=> payments[k].status = "success"
            /\ orders[i].payment_status = "failed" <=> payments[k].status = "failed"

(***************************************************************************)
(* MailbitSmsService.sendPaymentSuccessSms                                 *)
(***************************************************************************)
\* \d of the regular expression
Digits == {"0", "1", "2", "3", "4", "5", "6", "7", "8", "9"}
\* the literal 66 and the {9} of /^66\d{9}$/
CountryCode == <<"6", "6">>
PhoneDigits == 9

\* /^66\d{9}$/.test(phone)
phoneRegex_open(phone) ==
  /\ Len(phone) >= Len(CountryCode) + PhoneDigits
  /\ SubSeq(phone, 1, Len(CountryCode)) = CountryCode
  /\ \A i \in (Len(CountryCode) + 1)..(Len(CountryCode) + PhoneDigits) : phone[i] \in Digits
phoneRegex(phone) ==
  /\ Len(phone) = Len(CountryCode) + PhoneDigits
  /\ SubSeq(phone, 1, Len(CountryCode)) = CountryCode
  /\ \A i \in (Len(CountryCode) + 1)..Len(phone) : phone[i] \in Digits

\* longest run of characters after the prefix of a phone number tried
MaxPhoneTail == 10

\* phone numbers a caller may pass: a prefix followed by up to MaxPhoneTail
\* digits, one of which may be replaced by a character that is no digit
PhonePrefixes == {<<>>, <<"0">>, <<"6", "6">>, <<"6", "0">>, <<"+", "6", "6">>}
PhoneTail(n, d, bad, c) == [i \in 1..n |-> IF i = bad THEN c ELSE d]
Phones ==
  {pre \o PhoneTail(n, d, bad, c) :
     pre \in PhonePrefixes, n \in 0..MaxPhoneTail, d \in {"0", "9"},
     bad \in 0..MaxPhoneTail, c \in {"x", "-"}}

\* the calls of sendPaymentSuccessSms({phone, orderId}) on a service whose
\* apiKey and clientId are set or empty
SmsCalls ==
  {[SmsIdleRec EXCEPT !.phone = p, !.orderId = o, !.apiKey = k, !.clientId = c] :
     p \in Phones, o \in {"", "ORD-20240101-12345"}, k \in BOOLEAN, c \in BOOLEAN}

\* what the HTTP request to the provider may come to: a response whose
\* ErrorCode is 0, a response with another ErrorCode, an error status, or
\* no response at all
SmsOutcomes == {"sent", "provider-error", "api-error", "no-response"}

\* the error sendPaymentSuccessSms throws for an outcome of the request
\* ("none" when it returns response.data)
SmsErrorOf(outcome) ==
  IF outcome \in {"sent", "provider-error"} THEN "none" ELSE outcome

\* the validation of the inputs and of the credentials
SmsValidate ==
  /\ sms.pc = "idle"
  /\ sms' = IF sms.phone = <<>> \/ sms.orderId = ""
              THEN [sms EXCEPT !.pc = "done", !.error = "required"]
            ELSE IF ~phoneRegex(sms.phone)
              THEN [sms EXCEPT !.pc = "done", !.error = "invalid-phone-format"]
            ELSE IF ~sms.apiKey \/ ~sms.clientId
              THEN [sms EXCEPT !.pc = "done", !.error = "credentials"]
            ELSE [sms EXCEPT !.pc = "request"]
  /\ UNCHANGED <<cfgVars, giftVars, storeVars, orderVars, payCfgVars, payVars, tok, ins>>

\* the HTTP request to the provider and the return or throw that follows
SmsRequest ==
  /\ sms.pc = "request"
  /\ \E outcome \in SmsOutcomes :
       sms' = [sms EXCEPT !.pc = "done", !.requests = @ + 1,
                          !.error = SmsErrorOf(outcome)]
  /\ UNCHANGED <<cfgVars, giftVars, storeVars, orderVars, payCfgVars, payVars, tok, ins>>

(***************************************************************************)
(* Specification SpecSms: one call of sendPaymentSuccessSms                *)
(***************************************************************************)
SmsInit ==
  /\ CfgDefault
  /\ StoreEmpty
  /\ GiftIdle
  /\ OrderIdle
  /\ PayIdle
  /\ sms \in SmsCalls
  /\ tok = TokIdleRec
  /\ ins = InsIdleRec

SmsNext ==
  \/ SmsValidate
  \/ SmsRequest

SpecSms == SmsInit /\ [][SmsNext]_vars

(***************************************************************************)
(* C25: the provider is contacted only for a phone of the form 66 plus     *)
(* nine digits                                                             *)
(***************************************************************************)
\* the phone is 66 followed by exactly nine digits
IsThaiMobile(phone) ==
  /\ Len(phone) = 11
  /\ phone[1] = "6"
  /\ phone[2] = "6"
  /\ \A i \in 3..11 : phone[i] \in Digits

\* C25: an HTTP request is issued only for a call whose phone is 66
\* followed by exactly nine digits and whose phone, orderId, apiKey and
\* clientId are all non-empty; a call with a non-empty phone of any other
\* form and a non-empty orderId ends with the invalid-phone-format error
\* and no request
SmsOnlyForValidPhone ==
  /\ (sms.pc = "request" \/ sms.requests > 0) =>
       /\ IsThaiMobile(sms.phone)
       /\ sms.orderId # ""
       /\ sms.apiKey
       /\ sms.clientId
  /\ sms.requests <= 1
  /\ (sms.pc = "done" /\ sms.phone # <<>> /\ sms.orderId # "" /\ ~IsThaiMobile(sms.phone)) =>
       /\ sms.error = "invalid-phone-format"
       /\ sms.requests = 0

\* a call with configured credentials whose phone is 66 followed by ten
\* digits, one more than the pattern allows, was refused without a request
SmsOnlyForValidPhoneWitness ==
  /\ sms.pc = "done"
  /\ sms.error = "invalid-phone-format"
  /\ sms.requests = 0
  /\ Len(sms.phone) = 12
  /\ SubSeq(sms.phone, 1, 2) = CountryCode
  /\ \A i \in 3..12 : sms.phone[i] \in Digits
  /\ sms.apiKey
  /\ sms.clientId

(***************************************************************************)
(* PaymentService.createPaymentToken                                       *)
(***************************************************************************)
\* invocations of createPaymentToken explored within one call of it
MaxPasses == 3

\* HTTP status of a gateway request: 200 for a response axios resolves
\* with, 0 when no response arrives (network error, timeout)
RequestStatuses == {200, 400, 401, 500, 0}

\* error.response?.status === 400 || error.response?.status === 401
Method2Allowed_any(status) == TRUE
Method2Allowed(status) == status = 400 \/ status = 401

\* messages the gateway may put into description or message
GatewayMessages == {"", "Data incorrect", "DATA INCORRECT: amount", "Invalid merchant"}
\* errorMsg.toLowerCase().includes('data incorrect')
IncludesDataIncorrect(msg) == msg \in {"Data incorrect", "DATA INCORRECT: amount"}

\* the retry test: includes('data incorrect') && !trySatang
RetryInSatang_always(msg, trySatang) == IncludesDataIncorrect(msg)
RetryInSatang(msg, trySatang) == IncludesDataIncorrect(msg) /\ ~trySatang

\* the bodies a response may carry
TokenBodies ==
  {TokenBody("empty", "", "", FALSE)} \cup
  {TokenBody("object", st, msg, t) :
     st \in {"200", "error", "other"}, msg \in GatewayMessages, t \in BOOLEAN}

\* responseData.status === 'error' || responseData.status !== 200
BodyIsError(body) == body.status = "error" \/ body.status # "200"

\* one request of the log
TokenRequest(method, satang, status) ==
  [method |-> method, satang |-> satang, status |-> status]

TokenThrown(t) == [t EXCEPT !.pc = "done", !.result = "thrown"]

\* entry of an invocation: the amount validation and generateJwtPayload
TokenCall ==
  /\ tok.pc = "call"
  /\ tok.passes < MaxPasses
  /\ tok' = LET t == [tok EXCEPT !.passes = @ + 1]
            IN  IF t.amount <= 0 \/ JwtCredentialsMissing
                THEN TokenThrown(t)
                ELSE [t EXCEPT !.pc = "method1"]
  /\ UNCHANGED <<cfgVars, giftVars, storeVars, orderVars, payCfgVars, payVars, sms, ins>>

\* Method 1: JWT in the Authorization header
TokenMethod1 ==
  /\ tok.pc = "method1"
  /\ \E status \in RequestStatuses :
       LET t == [tok EXCEPT !.log = Append(@, TokenRequest(1, tok.trySatang, status))]
       IN  tok' = IF status = 200 THEN [t EXCEPT !.pc = "response"]
                  ELSE IF Method2Allowed(status) THEN [t EXCEPT !.pc = "method2"]
                  ELSE TokenThrown(t)
  /\ UNCHANGED <<cfgVars, giftVars, storeVars, orderVars, payCfgVars, payVars, sms, ins>>

\* Method 2: JWT wrapped in the body
TokenMethod2 ==
  /\ tok.pc = "method2"
  /\ \E status \in RequestStatuses :
       LET t == [tok EXCEPT !.log = Append(@, TokenRequest(2, tok.trySatang, status))]
       IN  tok' = IF status = 200 THEN [t EXCEPT !.pc = "response"]
                  ELSE [t EXCEPT !.pc = "method3"]
  /\ UNCHANGED <<cfgVars, giftVars, storeVars, orderVars, payCfgVars, payVars, sms, ins>>

\* Method 3: JWT as the body
TokenMethod3 ==
  /\ tok.pc = "method3"
  /\ \E status \in RequestStatuses :
       LET t == [tok EXCEPT !.log = Append(@, TokenRequest(3, tok.trySatang, status))]
       IN  tok' = IF status = 200 THEN [t EXCEPT !.pc = "response"]
                  ELSE TokenThrown(t)
  /\ UNCHANGED <<cfgVars, giftVars, storeVars, orderVars, payCfgVars, payVars, sms, ins>>

\* the handling of response.data: the empty array, the error check with
\* the retry in satang, the token
TokenResponse ==
  /\ tok.pc = "response"
  /\ \E body \in TokenBodies :
       LET t == [tok EXCEPT !.body = body]
       IN  tok' = IF body.kind = "empty" THEN TokenThrown(t)
                  ELSE IF BodyIsError(body)
                    THEN IF RetryInSatang(body.message, tok.trySatang)
                         THEN [t EXCEPT !.pc = "call", !.trySatang = TRUE]
                         ELSE TokenThrown(t)
                  ELSE IF body.token THEN [t EXCEPT !.pc = "done", !.result = "token"]
                  ELSE TokenThrown(t)
  /\ UNCHANGED <<cfgVars, giftVars, storeVars, orderVars, payCfgVars, payVars, sms, ins>>

(***************************************************************************)
(* Specification SpecToken: one call of createPaymentToken for a stored    *)
(* order; SpecTokenLive adds that every step that can be taken is taken    *)
(* (each request carries a timeout of 30 s)                                *)
(***************************************************************************)
TokenInit ==
  /\ CfgDefault
  /\ StorePending
  /\ ServicesIdle
  /\ moneyspecSecretId \in BOOLEAN
  /\ moneyspecSecretKey \in BOOLEAN
  /\ tieFirst = "low"
  /\ nodeEnv = ""
  /\ payments = <<>>
  /\ sms = SmsIdleRec
  /\ ins = InsIdleRec
  /\ \E i \in DOMAIN orders :
       tok = [TokIdleRec EXCEPT !.pc = "call", !.amount = orders[i].total_amount]

TokenNext ==
  \/ TokenCall
  \/ TokenMethod1
  \/ TokenMethod2
  \/ TokenMethod3
  \/ TokenResponse

SpecToken == TokenInit /\ [][TokenNext]_vars

SpecTokenLive == TokenInit /\ [][TokenNext]_vars /\ WF_vars(TokenNext)

(***************************************************************************)
(* C28: the order of the attempts of createPaymentToken                    *)
(***************************************************************************)
\* the requests of the log sent with the given amount unit
RequestsOfPass(satang) == {i \in DOMAIN tok.log : tok.log[i].satang = satang}

\* C28: a Method 2 request directly follows a Method 1 request of the same
\* pass that failed with status 400 or 401; a Method 3 request directly
\* follows a Method 2 request of the same pass that failed; a Method 1
\* request that failed otherwise is the last request and the call has
\* thrown; a pass starts with Method 1 and sends at most three requests
AttemptOrdering ==
  /\ \A i \in DOMAIN tok.log :
       LET q == tok.log[i]
       IN  /\ q.method = 1 =>
                \/ i = 1
                \/ q.satang /\ ~tok.log[i - 1].satang /\ tok.log[i - 1].status = 200
           /\ q.method = 2 =>
                /\ i > 1
                /\ tok.log[i - 1].method = 1
                /\ tok.log[i - 1].satang = q.satang
                /\ tok.log[i - 1].status \in {400, 401}
           /\ q.method = 3 =>
                /\ i > 1
                /\ tok.log[i - 1].method = 2
                /\ tok.log[i - 1].satang = q.satang
                /\ tok.log[i - 1].status # 200
           /\ (q.method = 1 /\ q.status \notin {200, 400, 401}) =>
                /\ i = Len(tok.log)
                /\ tok.pc = "done"
                /\ tok.result = "thrown"
  /\ \A satang \in BOOLEAN : Cardinality(RequestsOfPass(satang)) <= 3

\* a call went through all three methods: Method 1 answered 401, Method 2
\* failed without a response, Method 3 brought the token
AttemptOrderingWitness ==
  /\ tok.pc = "done"
  /\ tok.result = "token"
  /\ tok.log = <<TokenRequest(1, FALSE, 401), TokenRequest(2, FALSE, 0),
                 TokenRequest(3, FALSE, 200)>>

(***************************************************************************)
(* C29: createPaymentToken terminates                                      *)
(***************************************************************************)
\* C29: createPaymentToken is invoked at most twice within a call, the
\* second time in satang and only after a first pass not in satang whose
\* response carried an error message containing 'data incorrect'; and every
\* call ends, returning a token or throwing
TokenTerminates ==
  /\ [](/\ tok.passes <= 2
        /\ (tok.trySatang =>
              /\ tok.log # <<>>
              /\ \E i \in DOMAIN tok.log :
                   /\ ~tok.log[i].satang
                   /\ tok.log[i].status = 200
                   /\ \A j \in 1..i : ~tok.log[j].satang
                   /\ \A j \in DOMAIN tok.log : j > i => tok.log[j].satang)
        /\ (tok.pc = "done" => tok.result \in {"token", "thrown"}))
  /\ [][(tok'.trySatang /\ ~tok.trySatang) =>
          /\ tok'.body.status # "200"
          /\ tok'.body.message \in {"Data incorrect", "DATA INCORRECT: amount"}
          /\ tok'.pc = "call"]_vars
  /\ <>(tok.pc = "done")

\* a call was re-invoked in satang, got 'data incorrect' again and threw
TokenTerminatesWitness ==
  /\ tok.pc = "done"
  /\ tok.result = "thrown"
  /\ tok.passes = 2
  /\ tok.trySatang
  /\ tok.body.message = "Data incorrect"
  /\ Len(tok.log) >= 2

(***************************************************************************)
(* createOrder: one INSERT INTO order_items, with the quantity as the      *)
(* request gave it.  cart_items[i].quantity is a JSON number that neither  *)
(* createOrder nor validateAndApplyFreeGift checks; it is kept here in     *)
(* quarters, so that 1.5 is 6.  For whole quantities the row is ItemRow.   *)
(***************************************************************************)
\* largest quantity of a line explored
MaxItemQty == 3

\* quantity INT NOT NULL: the number as stored, the nearest integer (ties
\* to the even one)
RoundToInt(quantity4) ==
  LET f == quantity4 \div 4
      r == quantity4 % 4
  IN  IF r < 2 THEN f
      ELSE IF r > 2 THEN f + 1
      ELSE IF f % 2 = 0 THEN f ELSE f + 1

\* total_price DECIMAL(10, 2): item.unit_price * item.quantity in satang,
\* rounded to a whole satang
RoundToSatang(amount4) ==
  IF amount4 >= 0 THEN (amount4 + 2) \div 4 ELSE -((2 - amount4) \div 4)

\* const totalPrice = item.unit_price * item.quantity and the VALUES of the
\* INSERT, as the columns store them
StoredItemRow(item) ==
  [quantity |-> RoundToInt(item.quantity4),
   unit_price |-> item.unit_price,
   total_price |-> RoundToSatang(item.unit_price * item.quantity4)]

\* the lines validateAndApplyFreeGift hands on: an active product at its
\* store price with the quantity of the request
ItemInputs ==
  {[InsIdleRec EXCEPT !.product_id = p, !.unit_price = products[p].price,
                      !.quantity4 = q] :
     p \in {i \in ProductIds : products[i].is_active},
     q \in (0 - 4)..(4 * MaxItemQty)}

\* connection.execute(INSERT INTO order_items ...): the row is stored
\* unless the statement fails or CHECK (quantity > 0) refuses it
ItemInsert ==
  /\ ins.pc = "idle"
  /\ ins.product_id # 0
  /\ \E dbOk \in BOOLEAN :
       LET row == StoredItemRow(ins)
       IN  ins' = IF dbOk /\ QuantityCheck(row.quantity)
                  THEN [ins EXCEPT !.pc = "stored", !.row = row]
                  ELSE [ins EXCEPT !.pc = "rejected"]
  /\ UNCHANGED <<cfgVars, giftVars, storeVars, orderVars, payCfgVars, payVars, sms, tok>>

(***************************************************************************)
(* Specification SpecItem: the INSERT of one order line                    *)
(***************************************************************************)
ItemInit ==
  /\ CfgDefault
  /\ StoreEmpty
  /\ GiftIdle
  /\ OrderIdle
  /\ PayIdle
  /\ sms = SmsIdleRec
  /\ tok = TokIdleRec
  /\ ins \in ItemInputs

ItemNext == ItemInsert

SpecItem == ItemInit /\ [][ItemNext]_vars

(***************************************************************************)
(* C27: every stored order line has a positive quantity and                *)
(* total_price = quantity * unit_price                                     *)
(***************************************************************************)
\* C27: a row stored in order_items has quantity > 0 and a total_price
\* equal to its quantity times its unit_price
ItemRowWellFormed ==
  ins.pc = "stored" =>
    /\ ins.row.quantity > 0
    /\ ins.row.total_price = ins.row.quantity * ins.row.unit_price

====
